---- MODULE Spec2Model ----
(***************************************************************************)
(* Structured-text layout of the GUI TextBlock control                     *)
(* (src/unnamed/part_000): newline splitting, the three wrapping policies  *)
(* (Clip, WordWrap, Ellipsis), the width cache, run fusion and the default *)
(* word splitter.                                                          *)
(*                                                                         *)
(* Encoding.  A string is a sequence of one-character strings (what        *)
(* Array.from(text) yields).  A StructuredTextPart is a record with the    *)
(* field text, the eleven optional override fields and the cached width.   *)
(* An absent string field is "undefined"; an absent numeric or boolean     *)
(* field is the number undefined (booleans are 0 / 1).                     *)
(***************************************************************************)
EXTENDS Integers, Sequences, FiniteSets, TLC

VARIABLES
    metrics,             \* the measurement service: advance width per kind of character
    structuredText,      \* TextBlock._structuredText (the caller's array, shared with the layout)
    textWrapping,        \* TextBlock._textWrapping
    currentMeasureWidth, \* TextBlock._currentMeasure.width used by the last layout pass
    lines,               \* TextBlock._lines: <<>> before the first pass, else <<the lines>>
    isDirty,             \* Control._isDirty: a setter ran since the last layout pass
    useStructuredText,   \* TextBlock._useStructuredText
    arg,                 \* argument of a direct call of a helper, as it was passed
    ret,                 \* <<>> before the call returned, else <<the returned value>>
    ww,                  \* frame of a running _parseStructuredTextLineWordWrap call
    ell                  \* frame of a running _parseStructuredTextLineEllipsis call

vars == <<metrics, structuredText, textWrapping, currentMeasureWidth, lines, isDirty,
          useStructuredText, arg, ret, ww, ell>>

\* The fields of the TextBlock.
textBlockVars == <<structuredText, textWrapping, currentMeasureWidth, lines, isDirty,
                   useStructuredText>>

(***************************************************************************)
(* Bounds of the explored inputs.                                          *)
(***************************************************************************)
MaxParts == 2      \* runs in a structured text
MaxChars == 3      \* characters in a structured text, all runs together
MaxWidth == 4      \* largest narrow target width of a layout pass
MaxStrLen == 4     \* characters of a string handed to the word splitter
MaxFuseLen == 3    \* runs handed to the fusion helper

(***************************************************************************)
(* Generic helpers on sequences.                                           *)
(***************************************************************************)
RECURSIVE SumSeq(_)
SumSeq(s) == IF s = <<>> THEN 0 ELSE Head(s) + SumSeq(Tail(s))

RECURSIVE Concat(_)
Concat(ss) == IF ss = <<>> THEN <<>> ELSE Head(ss) \o Concat(Tail(ss))

Map(f(_), s) == [i \in 1..Len(s) |-> f(s[i])]

Last(s) == s[Len(s)]

Front(s) == SubSeq(s, 1, Len(s) - 1)

RECURSIVE SeqsUpTo(_, _)
SeqsUpTo(S, n) ==
    IF n = 0 THEN {<<>>}
    ELSE LET shorter == SeqsUpTo(S, n - 1)
         IN  shorter \cup {Append(s, x) : s \in {t \in shorter : Len(t) = n - 1}, x \in S}

(***************************************************************************)
(* Characters.                                                             *)
(***************************************************************************)
Space == " "
Newline == "\n"
EllipsisChar == "U+2026"

undefined == -1

TextOf(part) == part.text

WidthOf(part) == part.width

(***************************************************************************)
(* The measurement service, context.measureText(text).width under the font *)
(* the context was given.  Advance widths add up character by character; a *)
(* bold font widens every character by metrics.bold.                       *)
(***************************************************************************)
CharWidth(font, c) ==
    (IF c = EllipsisChar THEN metrics.ellipsis
     ELSE IF c = Space THEN metrics.space
     ELSE IF c = Newline THEN 0
     ELSE metrics.char)
    + (IF font.fontWeight = "bold" THEN metrics.bold ELSE 0)

measureText(font, text) == SumSeq([i \in 1..Len(text) |-> CharWidth(font, text[i])])

(***************************************************************************)
(* _inheritAttributes, as far as measuring is concerned: the font style    *)
(* and weight of the part, else those of the block (normal).               *)
(***************************************************************************)
_inheritAttributes(part) ==
    [ fontStyle  |-> IF part.fontStyle # "undefined" THEN part.fontStyle ELSE "normal",
      fontWeight |-> IF part.fontWeight # "undefined" THEN part.fontWeight ELSE "normal" ]

\* The width the measurement service gives for the current text of a part.
MeasuredWidth(part) == measureText(_inheritAttributes(part), part.text)

(***************************************************************************)
(* Runs.  NoOverrides is a part that inherits everything from the block.   *)
(***************************************************************************)
NoOverrides ==
    [ text |-> <<>>, color |-> "undefined",
      outlineWidth |-> undefined, outlineColor |-> "undefined",
      shadowColor |-> "undefined", shadowBlur |-> undefined,
      shadowOffsetX |-> undefined, shadowOffsetY |-> undefined,
      underline |-> undefined, lineThrough |-> undefined,
      fontStyle |-> "undefined", fontWeight |-> "undefined",
      width |-> undefined ]

Plain(text) == [NoOverrides EXCEPT !.text = text]

Bold(text) == [NoOverrides EXCEPT !.text = text, !.fontWeight = "bold"]

Red(text) == [NoOverrides EXCEPT !.text = text, !.color = "red"]

\* Object.assign( {} , part ) followed by the assignment of .text: every other
\* field of the source part is copied, the cached width included.
CopyWithText(part, text) == [part EXCEPT !.text = text]

(***************************************************************************)
(* _structuredTextWidth: measures the parts that have no width, stores the *)
(* width on them, and returns the total.  parts is the argument after the  *)
(* call (the parts are objects shared with the caller).                    *)
(***************************************************************************)
MeasurePart(part) ==
    IF part.width = undefined
    THEN [part EXCEPT !.width = MeasuredWidth(part)]
    ELSE part

_structuredTextWidth(st) ==
    LET measured == [i \in 1..Len(st) |-> MeasurePart(st[i])]
    IN  [ parts |-> measured, width |-> SumSeq(Map(WidthOf, measured)) ]

(***************************************************************************)
(* _defaultWordSplittingFunction.  Indexes are those of the code, from 0.  *)
(* MatchIndex is match.index of regexp.exec for / +/g started at position  *)
(* from (undefined when there is no match), MatchEnd the regexp's          *)
(* lastIndex after that match.                                             *)
(***************************************************************************)
Slice(str, from, to) == SubSeq(str, from + 1, to)

MatchIndex(str, from) ==
    LET hits == {i \in from..(Len(str) - 1) : str[i + 1] = Space}
    IN  IF hits = {} THEN undefined ELSE CHOOSE i \in hits : \A j \in hits : i <= j

MatchEnd(str, index) ==
    LET ends == {j \in (index + 1)..Len(str) : j = Len(str) \/ str[j + 1] # Space}
    IN  CHOOSE j \in ends : \A k \in ends : j <= k

\* The token pushed for a match: the text between lastIndex and the match.
PushBeforeMatchDropSpaces(str, lastIndex, index, splitted) ==
    IF lastIndex < index
    THEN Append(splitted, SelectSeq(Slice(str, lastIndex, index), LAMBDA c : c # Space))
    ELSE splitted

PushBeforeMatch(str, lastIndex, index, splitted) ==
    IF lastIndex < index
    THEN Append(splitted, Slice(str, lastIndex, index))
    ELSE splitted

RECURSIVE SplitLoop(_, _, _, _)
SplitLoop(str, from, lastIndex, splitted) ==
    LET index == MatchIndex(str, from)
    IN  IF index = undefined
        THEN IF lastIndex < Len(str)
             THEN Append(splitted, Slice(str, lastIndex, Len(str)))
             ELSE splitted
        ELSE SplitLoop(str, MatchEnd(str, index), index,
                       PushBeforeMatch(str, lastIndex, index, splitted))

_defaultWordSplittingFunction(str) == SplitLoop(str, 0, 0, <<>>)

(***************************************************************************)
(* _fuseStructuredTextParts.  lastInserted is the last element of output.  *)
(***************************************************************************)
\* The test without the comparison of the colors.
SameAttributesButColor(last, part) ==
    /\ last.outlineWidth = part.outlineWidth /\ last.outlineColor = part.outlineColor
    /\ last.shadowColor = part.shadowColor /\ last.shadowBlur = part.shadowBlur
    /\ last.shadowOffsetX = part.shadowOffsetX /\ last.shadowOffsetY = part.shadowOffsetY
    /\ last.underline = part.underline
    /\ last.lineThrough = part.lineThrough
    /\ last.fontStyle = part.fontStyle /\ last.fontWeight = part.fontWeight

SameAttributes(last, part) ==
    /\ last.color = part.color
    /\ last.outlineWidth = part.outlineWidth /\ last.outlineColor = part.outlineColor
    /\ last.shadowColor = part.shadowColor /\ last.shadowBlur = part.shadowBlur
    /\ last.shadowOffsetX = part.shadowOffsetX /\ last.shadowOffsetY = part.shadowOffsetY
    /\ last.underline = part.underline
    /\ last.lineThrough = part.lineThrough
    /\ last.fontStyle = part.fontStyle /\ last.fontWeight = part.fontWeight

OrZero(w) == IF w = undefined THEN 0 ELSE w

FuseIntoKeepWidth(lastInserted, part) ==
    [lastInserted EXCEPT !.text = @ \o part.text]

FuseInto(lastInserted, part) ==
    [lastInserted EXCEPT !.text = @ \o part.text,
                         !.width = OrZero(@) + OrZero(part.width)]

RECURSIVE FuseLoop(_, _, _)
FuseLoop(st, index, output) ==
    IF index > Len(st) THEN output
    ELSE LET last == st[index - 1]
             part == st[index]
         IN  IF SameAttributes(last, part)
             THEN FuseLoop(st, index + 1,
                           [output EXCEPT ![Len(output)] = FuseInto(@, part)])
             ELSE FuseLoop(st, index + 1, Append(output, part))

_fuseStructuredTextParts(st) ==
    IF Len(st) <= 1 THEN st ELSE FuseLoop(st, 2, <<st[1]>>)

(***************************************************************************)
(* _parseStructuredTextLineWordWrap, one step at a time.  The frame holds  *)
(* the locals of the call: line and width (the arguments), words, n (the   *)
(* position of the for-of loop over words, from 1), testLine, testWidth,   *)
(* lastTestWidth and lines.                                                *)
(***************************************************************************)
IsWhitespace(c) == c = Space \/ c = Newline

RECURSIVE trimStart(_)
trimStart(text) ==
    IF text # <<>> /\ IsWhitespace(Head(text)) THEN trimStart(Tail(text)) ELSE text

\* The tokens of one part: a copy of the part for every word of its text.
WordsOf(part) ==
    LET texts == _defaultWordSplittingFunction(part.text)
    IN  [k \in 1..Len(texts) |-> CopyWithText(part, texts[k])]

WWEnter(line, width) ==
    [ pc |-> "tokenize", line |-> line, width |-> width, words |-> <<>>, n |-> 1,
      testLine |-> <<>>, testWidth |-> 0, lastTestWidth |-> 0, lines |-> <<>> ]

WWTokenize(f) ==
    [f EXCEPT !.pc = "loop", !.words = Concat(Map(WordsOf, f.line))]

\* The word that starts the new line: left-trimmed, its width deleted.
NewLineWord(word) == [word EXCEPT !.text = trimStart(@), !.width = undefined]

\* The body of the if: the candidate without the word is emitted, the word
\* starts the next candidate.
WrapLineLoseWord(f, measured) ==
    [f EXCEPT !.n = @ + 1,
              !.lastTestWidth = f.testWidth,
              !.lines = Append(@, [ parts |-> _fuseStructuredTextParts(Front(measured.parts)),
                                    width |-> f.testWidth ]),
              !.testLine = <<>>,
              !.testWidth = 0]

WrapLine(f, measured) ==
    LET restart == _structuredTextWidth(<<NewLineWord(Last(measured.parts))>>)
    IN  [f EXCEPT !.n = @ + 1,
                  !.lastTestWidth = f.testWidth,
                  !.lines = Append(@, [ parts |-> _fuseStructuredTextParts(Front(measured.parts)),
                                        width |-> f.testWidth ]),
                  !.testLine = restart.parts,
                  !.testWidth = restart.width]

\* One iteration of the loop over words.
WWIterate(f) ==
    LET measured == _structuredTextWidth(Append(f.testLine, f.words[f.n]))
    IN  IF measured.width > f.width /\ Len(measured.parts) > 1
        THEN WrapLine(f, measured)
        ELSE [f EXCEPT !.n = @ + 1,
                       !.lastTestWidth = f.testWidth,
                       !.testLine = measured.parts,
                       !.testWidth = measured.width]

\* After the loop: the last candidate is emitted and the lines are returned.
WWReturn(f) ==
    [f EXCEPT !.pc = "done",
              !.lines = Append(@, [ parts |-> _fuseStructuredTextParts(f.testLine),
                                    width |-> f.testWidth ])]

WWNext(f) ==
    IF f.pc = "tokenize" THEN WWTokenize(f)
    ELSE IF f.n <= Len(f.words) THEN WWIterate(f)
    ELSE WWReturn(f)

RECURSIVE WWRun(_)
WWRun(f) == IF f.pc = "done" THEN f ELSE WWRun(WWNext(f))

_parseStructuredTextLineWordWrap(line, width) == WWRun(WWEnter(line, width)).lines

(***************************************************************************)
(* _parseStructuredTextLine (Clip).  after is the group after the call:    *)
(* the parts are the caller's objects, and they now carry their width.     *)
(***************************************************************************)
ClipCall(line) ==
    LET measured == _structuredTextWidth(line)
    IN  [ parts |-> measured.parts, width |-> measured.width, after |-> measured.parts ]

_parseStructuredTextLine(line) ==
    LET c == ClipCall(line) IN [ parts |-> c.parts, width |-> c.width ]

(***************************************************************************)
(* _parseStructuredTextLineEllipsis, one loop test or loop body at a time. *)
(* The frame holds line (the array, shrunk by line.pop()), dropped (the    *)
(* parts popped from it, in their original order: they stay in the         *)
(* caller's array), width, lineWidth and characters.                       *)
(***************************************************************************)
EllEnter(line, width) ==
    LET measured == _structuredTextWidth(line)
    IN  [ pc |-> "outer", line |-> measured.parts, dropped |-> <<>>, width |-> width,
          lineWidth |-> measured.width, characters |-> <<>> ]

\* The test lineWidth > width of the two loops and of the if.
TooWideOffByOne(f) == f.lineWidth > f.width + 1

TooWide(f) == f.lineWidth > f.width

\* while ( line.length && lineWidth > width ): the last part is taken up.
EllOuter(f) ==
    IF Len(f.line) > 0 /\ TooWide(f)
    THEN [f EXCEPT !.pc = "inner", !.characters = Last(f.line).text]
    ELSE [f EXCEPT !.pc = "done"]

\* The text given to the last part once a character was popped.
TruncatedTextNoMarker(characters) == Front(characters)

TruncatedText(characters) == Append(Front(characters), EllipsisChar)

\* The inner loop without characters.pop().
EllInnerKeepCharacters(f) ==
    IF Len(f.characters) > 0 /\ TooWide(f)
    THEN LET _part == [Last(f.line) EXCEPT !.text = Append(f.characters, EllipsisChar),
                                           !.width = undefined]
             measured == _structuredTextWidth(Append(Front(f.line), _part))
         IN  [f EXCEPT !.line = measured.parts,
                       !.lineWidth = measured.width]
    ELSE IF TooWide(f)
         THEN [f EXCEPT !.pc = "outer",
                        !.line = Front(@),
                        !.dropped = <<Last(f.line)>> \o @]
         ELSE [f EXCEPT !.pc = "outer"]

\* while ( characters.length && lineWidth > width ), then the if after it.
EllInner(f) ==
    IF Len(f.characters) > 0 /\ TooWide(f)
    THEN LET _part == [Last(f.line) EXCEPT !.text = TruncatedText(f.characters),
                                           !.width = undefined]
             measured == _structuredTextWidth(Append(Front(f.line), _part))
         IN  [f EXCEPT !.characters = Front(@),
                       !.line = measured.parts,
                       !.lineWidth = measured.width]
    ELSE IF TooWide(f)
         THEN [f EXCEPT !.pc = "outer",
                        !.line = Front(@),
                        !.dropped = <<Last(f.line)>> \o @]
         ELSE [f EXCEPT !.pc = "outer"]

EllNext(f) == IF f.pc = "outer" THEN EllOuter(f) ELSE EllInner(f)

RECURSIVE EllRun(_)
EllRun(f) == IF f.pc = "done" THEN f ELSE EllRun(EllNext(f))

EllipsisCall(line, width) ==
    LET f == EllRun(EllEnter(line, width))
    IN  [ parts |-> f.line, width |-> f.lineWidth, after |-> f.line \o f.dropped ]

_parseStructuredTextLineEllipsis(line, width) ==
    LET c == EllipsisCall(line, width) IN [ parts |-> c.parts, width |-> c.width ]

(***************************************************************************)
(* _breakStructuredTextLines.  A group (an element of _lines) is a         *)
(* sequence of entries [part, src]: src is the position in _structuredText *)
(* of the object pushed, or 0 for a copy made for a newline fragment.      *)
(***************************************************************************)
\* text.split( '\n' ), the fragments in order.
RECURSIVE SplitAtNewlines(_, _)
SplitAtNewlines(text, fragment) ==
    IF text = <<>> THEN <<fragment>>
    ELSE IF Head(text) = Newline
         THEN <<fragment>> \o SplitAtNewlines(Tail(text), <<>>)
         ELSE SplitAtNewlines(Tail(text), Append(fragment, Head(text)))

PushToCurrentLine(groups, entry) ==
    [groups EXCEPT ![Len(groups)] = Append(@, entry)]

\* The inner loop: every fragment is pushed and a new line is created after it.
RECURSIVE PushFragments(_, _, _)
PushFragments(groups, _part, fragments) ==
    IF fragments = <<>> THEN groups
    ELSE PushFragments(
             Append(PushToCurrentLine(groups,
                        [part |-> CopyWithText(_part, Head(fragments)), src |-> 0]), <<>>),
             _part, Tail(fragments))

RECURSIVE GroupLoop(_, _, _)
GroupLoop(st, index, groups) ==
    IF index > Len(st) THEN groups
    ELSE IF \E k \in 1..Len(st[index].text) : st[index].text[k] = Newline
         THEN GroupLoop(st, index + 1,
                        PushFragments(groups, st[index], SplitAtNewlines(st[index].text, <<>>)))
         ELSE GroupLoop(st, index + 1,
                        PushToCurrentLine(groups, [part |-> st[index], src |-> index]))

LineGroups(st) == GroupLoop(st, 1, <<<<>>>>)

PartOf(entry) == entry.part

\* What the policy of the wrapping mode does with one group: the lines it
\* returns and the parts of the group after the call.
PolicyCall(group, mode, refWidth) ==
    LET line == Map(PartOf, group)
    IN  IF mode = "Ellipsis"
        THEN LET c == EllipsisCall(line, refWidth)
             IN  [ lines |-> <<[parts |-> c.parts, width |-> c.width]>>, after |-> c.after ]
        ELSE IF mode = "WordWrap"
        THEN [ lines |-> _parseStructuredTextLineWordWrap(line, refWidth), after |-> line ]
        ELSE LET c == ClipCall(line)
             IN  [ lines |-> <<[parts |-> c.parts, width |-> c.width]>>, after |-> c.after ]

\* The caller's parts after the pass: what the policies stored on the
\* objects of _structuredText.
StoredPart(st, index, groups, calls) ==
    LET hits == {<<g, k>> \in (1..Len(groups)) \X (1..Len(st)) :
                    k <= Len(groups[g]) /\ groups[g][k].src = index}
    IN  IF hits = {} THEN st[index]
        ELSE LET h == CHOOSE x \in hits : TRUE IN calls[h[1]].after[h[2]]

_breakStructuredTextLines(st, mode, refWidth) ==
    LET groups == LineGroups(st)
        calls == [g \in 1..Len(groups) |-> PolicyCall(groups[g], mode, refWidth)]
    IN  [ lines |-> Concat([g \in 1..Len(groups) |-> calls[g].lines]),
          structuredText |-> [i \in 1..Len(st) |-> StoredPart(st, i, groups, calls)] ]

(***************************************************************************)
(* Values of the variables a specification does not use.                   *)
(***************************************************************************)
UnitMetrics == [char |-> 1, space |-> 1, ellipsis |-> 1, bold |-> 1]

NoCall == [pc |-> "none"]

TextBlockIdle ==
    /\ metrics = UnitMetrics
    /\ structuredText = <<>>
    /\ textWrapping = "Clip"
    /\ currentMeasureWidth = 0
    /\ lines = <<>>
    /\ isDirty = FALSE
    /\ useStructuredText = FALSE

(***************************************************************************)
(* SpecSplit: _defaultWordSplittingFunction called on a string.            *)
(***************************************************************************)
SplitChars == {"a", "b", Space}

InitSplit ==
    /\ TextBlockIdle
    /\ ww = NoCall
    /\ ell = NoCall
    /\ arg \in SeqsUpTo(SplitChars, MaxStrLen)
    /\ ret = <<>>

CallSplit ==
    /\ ret = <<>>
    /\ ret' = <<_defaultWordSplittingFunction(arg)>>
    /\ UNCHANGED <<metrics, textBlockVars, arg, ww, ell>>

SpecSplit == InitSplit /\ [][CallSplit]_vars

(***************************************************************************)
(* SpecFuse: _fuseStructuredTextParts called on a sequence of measured     *)
(* runs.                                                                   *)
(***************************************************************************)
FuseTexts == {<<>>, <<"a">>, <<Space, "b">>}

FusePool ==
    {[p EXCEPT !.width = Len(p.text)] :
        p \in {Plain(t) : t \in FuseTexts} \cup {Red(t) : t \in FuseTexts}
              \cup {Bold(t) : t \in FuseTexts}}

InitFuse ==
    /\ TextBlockIdle
    /\ ww = NoCall
    /\ ell = NoCall
    /\ arg \in SeqsUpTo(FusePool, MaxFuseLen)
    /\ ret = <<>>

CallFuse ==
    /\ ret = <<>>
    /\ ret' = <<_fuseStructuredTextParts(arg)>>
    /\ UNCHANGED <<metrics, textBlockVars, arg, ww, ell>>

SpecFuse == InitFuse /\ [][CallFuse]_vars

(***************************************************************************)
(* Spec: a TextBlock.  The caller assigns a structured text and a wrapping *)
(* mode; the host runs layout passes (_processMeasures) at the width of    *)
(* the control.  The measurement service is fixed for the life of the      *)
(* control.  The caller assigns the structured text once, before the first *)
(* layout pass; afterwards the runs change only through the layout.        *)
(***************************************************************************)
MetricsSet ==
    { [char |-> 1, space |-> 1, ellipsis |-> 1, bold |-> 1],
      [char |-> 2, space |-> 1, ellipsis |-> 1, bold |-> 0],
      [char |-> 1, space |-> 1, ellipsis |-> 2, bold |-> 1] }

TextChars == {"a", Space, Newline}

PartsWithin(chars, n) ==
    LET texts == SeqsUpTo(chars, n)
    IN  {Plain(t) : t \in texts} \cup {Bold(t) : t \in texts}

\* The structured texts of at most parts runs and chars characters in all.
RECURSIVE StructuredTexts(_, _, _)
StructuredTexts(alphabet, parts, chars) ==
    IF parts = 0 THEN {<<>>}
    ELSE {<<>>} \cup
         UNION { {<<p>> \o rest : rest \in StructuredTexts(alphabet, parts - 1, chars - Len(p.text))} :
                 p \in PartsWithin(alphabet, chars) }

InputTexts == StructuredTexts(TextChars, MaxParts, MaxChars)

\* Widths of the control: the narrow ones, and one in which every text fits.
WideWidth == 3 * MaxChars

Widths == (0..MaxWidth) \cup {WideWidth}

WrappingModes == {"Clip", "WordWrap", "Ellipsis"}

Init ==
    /\ metrics \in MetricsSet
    /\ structuredText = <<>>
    /\ textWrapping = "Clip"
    /\ currentMeasureWidth = 0
    /\ lines = <<>>
    /\ isDirty = TRUE
    /\ useStructuredText = FALSE
    /\ arg = <<>>
    /\ ret = <<>>
    /\ ww = NoCall
    /\ ell = NoCall

\* set structuredText(value), with a new array of runs that have no width yet.
SetStructuredText ==
    /\ ~useStructuredText
    /\ \E value \in InputTexts :
          /\ structuredText' = value
          /\ useStructuredText' = TRUE
          /\ isDirty' = TRUE
    /\ UNCHANGED <<metrics, textWrapping, currentMeasureWidth, lines, arg, ret, ww, ell>>

\* set textWrapping(value)
SetTextWrapping ==
    /\ \E value \in WrappingModes :
          /\ textWrapping # value
          /\ textWrapping' = value
          /\ isDirty' = TRUE
    /\ UNCHANGED <<metrics, structuredText, currentMeasureWidth, lines, useStructuredText,
                   arg, ret, ww, ell>>

\* _processMeasures: a layout pass at the width of the control.
ProcessMeasures ==
    /\ useStructuredText
    /\ \E refWidth \in Widths :
          LET pass == _breakStructuredTextLines(structuredText, textWrapping, refWidth)
          IN  /\ currentMeasureWidth' = refWidth
              /\ lines' = <<pass.lines>>
              /\ structuredText' = pass.structuredText
              /\ isDirty' = FALSE
    /\ UNCHANGED <<metrics, textWrapping, useStructuredText, arg, ret, ww, ell>>

Next == SetStructuredText \/ SetTextWrapping \/ ProcessMeasures

Spec == Init /\ [][Next]_vars

(***************************************************************************)
(* SpecWordWrap: one call of _parseStructuredTextLineWordWrap, step by     *)
(* step, on a group of runs without newlines.  The runs come as the caller *)
(* supplied them (no width) or as an earlier Clip pass left them (the      *)
(* width of the whole run cached).  The target width may be 0 or negative. *)
(* Every frame that has not returned can take exactly one of the steps     *)
(* WordWrapTokenize, WordWrapIterate, WordWrapReturn.                      *)
(***************************************************************************)
WordChars == {"a", "b", Space}

WordWrapWidths == (0 - 1)..MaxWidth

WordWrapGroups == StructuredTexts(WordChars, MaxParts, MaxChars)

InitWordWrap ==
    /\ metrics \in MetricsSet
    /\ structuredText = <<>>
    /\ textWrapping = "WordWrap"
    /\ currentMeasureWidth = 0
    /\ lines = <<>>
    /\ isDirty = FALSE
    /\ useStructuredText = TRUE
    /\ arg = <<>>
    /\ ret = <<>>
    /\ ww = NoCall
    /\ ell = NoCall

\* The call is entered with its arguments.
WordWrapEnter ==
    /\ ww.pc = "none"
    /\ \E line \in WordWrapGroups, width \in WordWrapWidths, cached \in BOOLEAN :
          ww' = WWEnter(IF cached THEN Map(MeasurePart, line) ELSE line, width)
    /\ UNCHANGED <<metrics, textBlockVars, arg, ret, ell>>

WordWrapTokenize ==
    /\ ww.pc = "tokenize"
    /\ ww' = WWTokenize(ww)
    /\ UNCHANGED <<metrics, textBlockVars, arg, ret, ell>>

WordWrapIterate ==
    /\ ww.pc = "loop" /\ ww.n <= Len(ww.words)
    /\ ww' = WWIterate(ww)
    /\ UNCHANGED <<metrics, textBlockVars, arg, ret, ell>>

WordWrapReturn ==
    /\ ww.pc = "loop" /\ ww.n > Len(ww.words)
    /\ ww' = WWReturn(ww)
    /\ UNCHANGED <<metrics, textBlockVars, arg, ret, ell>>

NextWordWrap == WordWrapEnter \/ WordWrapTokenize \/ WordWrapIterate \/ WordWrapReturn

SpecWordWrap == InitWordWrap /\ [][NextWordWrap]_vars

(***************************************************************************)
(* SpecEllipsis: one call of _parseStructuredTextLineEllipsis, step by     *)
(* step, on a group of runs without newlines.  The runs come as the caller *)
(* supplied them (no width) or as an earlier pass left them (the width     *)
(* cached, the text possibly ending with the marker of an earlier          *)
(* truncation).  arg keeps the group as it was passed.                     *)
(***************************************************************************)
EllipsisChars == {"a", "b", EllipsisChar}

EllipsisGroups == StructuredTexts(EllipsisChars, MaxParts, MaxChars)

InitEllipsis ==
    /\ metrics \in MetricsSet
    /\ structuredText = <<>>
    /\ textWrapping = "Ellipsis"
    /\ currentMeasureWidth = 0
    /\ lines = <<>>
    /\ isDirty = FALSE
    /\ useStructuredText = TRUE
    /\ arg = <<>>
    /\ ret = <<>>
    /\ ww = NoCall
    /\ ell = NoCall

\* The call is entered with its arguments; the group is measured.
EllipsisEnter ==
    /\ ell.pc = "none"
    /\ \E line \in EllipsisGroups, width \in WordWrapWidths, cached \in BOOLEAN :
          /\ arg' = (IF cached THEN Map(MeasurePart, line) ELSE line)
          /\ ell' = EllEnter(arg', width)
    /\ UNCHANGED <<metrics, textBlockVars, ret, ww>>

\* The test of the outer while loop.
EllipsisOuter ==
    /\ ell.pc = "outer"
    /\ ell' = EllOuter(ell)
    /\ UNCHANGED <<metrics, textBlockVars, arg, ret, ww>>

\* The test of the inner while loop, with its body or with the if after it.
EllipsisInner ==
    /\ ell.pc = "inner"
    /\ ell' = EllInner(ell)
    /\ UNCHANGED <<metrics, textBlockVars, arg, ret, ww>>

NextEllipsis == EllipsisEnter \/ EllipsisOuter \/ EllipsisInner

SpecEllipsis == InitEllipsis /\ [][NextEllipsis]_vars

(***************************************************************************)
(* C10 (under SpecSplit): the tokens of _defaultWordSplittingFunction,     *)
(* concatenated in order, are the original string; no token is empty,      *)
(* every token is a run of spaces followed by a run of other characters,   *)
(* and every token after the first starts with the spaces that precede it. *)
(***************************************************************************)
SpacesThenWord(token) ==
    \A i \in 1..(Len(token) - 1) : token[i] # Space => token[i + 1] # Space

C10_SplitLossless ==
    ret # <<>> =>
        /\ Concat(ret[1]) = arg
        /\ \A k \in 1..Len(ret[1]) :
              /\ ret[1][k] # <<>>
              /\ SpacesThenWord(ret[1][k])
              /\ k > 1 => ret[1][k][1] = Space

\* A string with a doubled space inside and a space at the end was split.
C10_Witness ==
    /\ ret # <<>>
    /\ Len(arg) = MaxStrLen
    /\ arg[2] = Space /\ arg[3] = Space /\ arg[1] # Space
    /\ Len(ret[1]) = 2

(***************************************************************************)
(* C7 (under SpecFuse): _fuseStructuredTextParts keeps the concatenated    *)
(* text and the sum of the run widths of its input.                        *)
(***************************************************************************)
C7_FusionNeutral ==
    ret # <<>> =>
        /\ Concat(Map(TextOf, ret[1])) = Concat(Map(TextOf, arg))
        /\ SumSeq(Map(WidthOf, ret[1])) = SumSeq(Map(WidthOf, arg))

\* Three runs were fused into fewer, and the merged run carries a width.
C7_Witness ==
    /\ ret # <<>>
    /\ Len(arg) = 3
    /\ Len(ret[1]) < Len(arg)
    /\ SumSeq(Map(WidthOf, arg)) >= 2

(***************************************************************************)
(* Helpers of the properties of Spec.                                      *)
(***************************************************************************)
\* A layout pass has run and no setter ran since: lines[1] is its result.
LaidOut == lines # <<>> /\ ~isDirty

NewlineCount(st) ==
    Cardinality({<<i, k>> \in (1..Len(st)) \X (1..MaxChars) :
                    k <= Len(st[i].text) /\ st[i].text[k] = Newline})

LineText(line) == Concat(Map(TextOf, line.parts))

PartsWidth(parts) == SumSeq(Map(WidthOf, parts))

IsPrefix(p, t) == Len(p) <= Len(t) /\ p = SubSeq(t, 1, Len(p))

(***************************************************************************)
(* C1 (under Spec): at a target width in which nothing wraps or is         *)
(* truncated, a layout pass returns exactly 1 + N lines, N being the       *)
(* number of newline characters in the texts of the runs.                  *)
(***************************************************************************)
C1_OneLinePerNewline ==
    (LaidOut /\ currentMeasureWidth = WideWidth) =>
        Len(lines[1]) = 1 + NewlineCount(structuredText)

(***************************************************************************)
(* C2 (under Spec): every line returned by WordWrap is at most as wide as  *)
(* the target width, except a line made of a single token whose measured   *)
(* width exceeds the target width.                                         *)
(***************************************************************************)
IsSingleToken(line) ==
    /\ Len(line.parts) = 1
    /\ Len(_defaultWordSplittingFunction(line.parts[1].text)) <= 1

C2_WordWrapFits ==
    (LaidOut /\ textWrapping = "WordWrap") =>
        \A l \in 1..Len(lines[1]) :
            \/ lines[1][l].width <= currentMeasureWidth
            \/ /\ IsSingleToken(lines[1][l])
               /\ MeasuredWidth(lines[1][l].parts[1]) > currentMeasureWidth

(***************************************************************************)
(* C6 (under Spec): a layout pass repeated with the same runs, the same    *)
(* target width and the same wrapping mode returns the same lines.         *)
(***************************************************************************)
C6_LayoutIdempotent ==
    [][(~isDirty /\ ~isDirty' /\ currentMeasureWidth' = currentMeasureWidth)
          => lines' = lines]_vars

(***************************************************************************)
(* C8 (under Spec): the width of every line returned by a policy is the    *)
(* sum of the widths of its runs, 0 for a line without runs.               *)
(***************************************************************************)
C8_LineWidthIsSum ==
    lines # <<>> =>
        \A l \in 1..Len(lines[1]) : lines[1][l].width = PartsWidth(lines[1][l].parts)

(***************************************************************************)
(* C9 (under Spec): after any sequence of layout passes, the width carried *)
(* by every run of every line is the width the measurement service gives   *)
(* for the text of that run (the widths of the service add up, so this     *)
(* holds of a fused run when it holds of the runs fused into it).          *)
(***************************************************************************)
C9_WidthsAreMeasured ==
    lines # <<>> =>
        \A l \in 1..Len(lines[1]) : \A k \in 1..Len(lines[1][l].parts) :
            lines[1][l].parts[k].width = MeasuredWidth(lines[1][l].parts[k])

(***************************************************************************)
(* Helpers of the properties of SpecEllipsis.                              *)
(***************************************************************************)
MarkerWidth(part) == measureText(_inheritAttributes(part), <<EllipsisChar>>)

IsBareMarker(parts) == Len(parts) = 1 /\ parts[1].text = <<EllipsisChar>>

\* The marker alone, in the font of a run of the group (of the block when
\* the group has no run), is wider than the target width.
MarkerTooWide(group, width) ==
    IF group = <<>> THEN MarkerWidth(NoOverrides) > width
    ELSE \E k \in 1..Len(group) : MarkerWidth(group[k]) > width

\* The width of the group as the call finds it (cached widths included).
WidthAtEntry(group) == _structuredTextWidth(group).width

(***************************************************************************)
(* C4 (under SpecEllipsis): the line returned by the Ellipsis policy is at *)
(* most as wide as the target width; a wider output has no runs or is the  *)
(* bare marker, and then the marker alone is wider than the target width.  *)
(***************************************************************************)
C4_EllipsisFits ==
    ell.pc = "done" =>
        \/ ell.lineWidth <= ell.width
        \/ /\ ell.line = <<>> \/ IsBareMarker(ell.line)
           /\ MarkerTooWide(arg, ell.width)

\* A group that did not fit was truncated to a line that fits and still
\* has a run with text before the marker.
C4_Witness ==
    /\ ell.pc = "done"
    /\ WidthAtEntry(arg) > ell.width
    /\ ell.line # <<>>
    /\ Len(Last(ell.line).text) > 1
    /\ Last(Last(ell.line).text) = EllipsisChar
    /\ ell.lineWidth <= ell.width

(***************************************************************************)
(* C5 (under SpecEllipsis): when a group does not fit and the output has a *)
(* run, the text of its last run is a prefix of the text that run had,     *)
(* followed by one marker, and the runs before it keep their text.         *)
(***************************************************************************)
C5_MarkerOnLastRun ==
    (ell.pc = "done" /\ WidthAtEntry(arg) > ell.width /\ ell.line # <<>>) =>
        LET n == Len(ell.line)
            text == ell.line[n].text
        IN  /\ text # <<>>
            /\ Last(text) = EllipsisChar
            /\ IsPrefix(Front(text), arg[n].text)
            /\ \A k \in 1..(n - 1) : ell.line[k].text = arg[k].text

\* The last run of a group was dropped and the marker was put on the run
\* before it, after a prefix of its text.
C5_Witness ==
    /\ ell.pc = "done"
    /\ Len(arg) = 2
    /\ Len(ell.dropped) = 1
    /\ Len(arg[2].text) >= 1
    /\ Len(ell.line) = 1
    /\ ell.line[1].text = <<arg[1].text[1], EllipsisChar>>
    /\ arg[1].text[1] # EllipsisChar

(***************************************************************************)
(* C3 (under SpecWordWrap): for every target width, 0 and negative ones    *)
(* included, the call returns: every step brings it closer to its return   *)
(* (StepsLeft counts the steps it may still take), and the lines it        *)
(* returns are the tokens of the word splitter in their order, each token  *)
(* whole and in one line, the token that starts a line after the first     *)
(* left-trimmed.                                                           *)
(***************************************************************************)
StepsLeft(f) ==
    IF f.pc = "done" THEN 0
    ELSE IF f.pc = "loop" THEN Len(f.words) + 2 - f.n
    ELSE Len(Concat(Map(TextOf, f.line))) + 2

LineOfTokens(tokens, k, trimFirst) ==
    (IF trimFirst THEN trimStart(tokens[1]) ELSE tokens[1])
        \o Concat(SubSeq(tokens, 2, k))

RECURSIVE LinesAreTokens(_, _, _)
LinesAreTokens(texts, tokens, trimFirst) ==
    IF texts = <<>> THEN tokens = <<>>
    ELSE \/ tokens = <<>> /\ ~trimFirst /\ texts = <<<<>>>>
         \/ \E k \in 1..Len(tokens) :
               /\ Head(texts) = LineOfTokens(tokens, k, trimFirst)
               /\ LinesAreTokens(Tail(texts), SubSeq(tokens, k + 1, Len(tokens)), TRUE)

TokensKept(f) == LinesAreTokens(Map(LineText, f.lines), Map(TextOf, f.words), FALSE)

C3_WordWrapProgress ==
    [][ww.pc \in {"tokenize", "loop"} =>
          /\ StepsLeft(ww') < StepsLeft(ww)
          /\ ww'.pc = "done" => TokensKept(ww')
      ]_vars

\* A call with a target width of 0 or less returned several lines, one of
\* them started by a token that was left-trimmed.
C3_Witness ==
    /\ ww.pc = "done"
    /\ ww.width <= 0
    /\ Len(ww.words) >= 2
    /\ Len(ww.lines) >= 2
    /\ \E k \in 2..Len(ww.words) : ww.words[k].text[1] = Space /\ Len(ww.words[k].text) > 1

(***************************************************************************)
(* The style of a run: its eleven override fields, text and width aside.   *)
(***************************************************************************)
Style(part) == [part EXCEPT !.text = <<>>, !.width = undefined]

SameStyle(a, b) == Style(a) = Style(b)

NoAdjacentSameStyle(parts) ==
    \A k \in 1..(Len(parts) - 1) : ~SameStyle(parts[k], parts[k + 1])

(***************************************************************************)
(* C11 (under Spec): in Clip and in WordWrap mode a run with empty text is *)
(* not removed by the line breaker: a line of the pass has a run of its    *)
(* style (the run itself, or the run it was fused into).                   *)
(***************************************************************************)
C11_EmptyRunKept ==
    (LaidOut /\ textWrapping \in {"Clip", "WordWrap"}) =>
        \A i \in 1..Len(structuredText) :
            structuredText[i].text = <<>> =>
                \E l \in 1..Len(lines[1]) : \E k \in 1..Len(lines[1][l].parts) :
                    SameStyle(lines[1][l].parts[k], structuredText[i])

(***************************************************************************)
(* _structuredTextWidth with the measurement service and the drawing       *)
(* context made explicit.  answers[i] is what context.measureText gives    *)
(* for part i (textMetrics.width): a width, or one of the two non-finite   *)
(* numbers NaN and Infinity, encoded below the widths.  The context is its *)
(* font and its stack of saved states.                                     *)
(***************************************************************************)
NaN == 0 - 2

Infinity == 0 - 3

IsFinite(x) == x # NaN /\ x # Infinity

\* a + b on numbers.
NumberPlus(a, b) ==
    IF a = NaN \/ b = NaN THEN NaN
    ELSE IF a = Infinity \/ b = Infinity THEN Infinity
    ELSE a + b

\* context.font as _setContextAttributesForMeasure sets it (the size and
\* the family are those of the block).
FontOf(attr) == <<attr.fontStyle, attr.fontWeight>>

ContextSave(context) == [context EXCEPT !.saved = Append(@, context.font)]

ContextRestore(context) ==
    IF context.saved = <<>> THEN context
    ELSE [font |-> Last(context.saved), saved |-> Front(context.saved)]

\* The callback of reduce for one part; contextSaved is the local flag.
MeasureStep(acc, part, answer) ==
    IF part.width = undefined
    THEN LET saved == IF ~acc.contextSaved THEN ContextSave(acc.context) ELSE acc.context
         IN  [acc EXCEPT !.context = [saved EXCEPT !.font = FontOf(_inheritAttributes(part))],
                         !.parts = Append(@, [part EXCEPT !.width = answer]),
                         !.width = NumberPlus(@, answer)]
    ELSE [acc EXCEPT !.parts = Append(@, part),
                     !.width = NumberPlus(@, part.width)]

RECURSIVE MeasureReduce(_, _, _, _)
MeasureReduce(st, answers, index, acc) ==
    IF index > Len(st) THEN acc
    ELSE MeasureReduce(st, answers, index + 1, MeasureStep(acc, st[index], answers[index]))

StructuredTextWidthCall(st, answers, context) ==
    LET acc == MeasureReduce(st, answers, 1,
                   [parts |-> <<>>, width |-> 0, context |-> context, contextSaved |-> FALSE])
    IN  [ parts |-> acc.parts, width |-> acc.width,
          context |-> IF acc.contextSaved THEN ContextRestore(acc.context) ELSE acc.context ]

(***************************************************************************)
(* SpecMeasure: one call of _structuredTextWidth on a group of runs, some  *)
(* of them with a cached width, with a measurement service that answers    *)
(* the width of the text or a non-finite number.  ret holds the group      *)
(* after the call, the total, the context after the call and the answers.  *)
(***************************************************************************)
ContextAtEntry == [font |-> <<"normal", "normal">>, saved |-> <<>>]

MeasureGroups ==
    UNION { {[i \in 1..Len(line) |-> IF i \in cached THEN MeasurePart(line[i]) ELSE line[i]] :
                cached \in SUBSET (1..Len(line))} : line \in WordWrapGroups }

InitMeasure ==
    /\ metrics \in MetricsSet
    /\ structuredText = <<>>
    /\ textWrapping = "Clip"
    /\ currentMeasureWidth = 0
    /\ lines = <<>>
    /\ isDirty = FALSE
    /\ useStructuredText = TRUE
    /\ arg \in MeasureGroups
    /\ ret = <<>>
    /\ ww = NoCall
    /\ ell = NoCall

CallMeasure ==
    /\ ret = <<>>
    /\ \E answers \in [1..Len(arg) -> {"width", "NaN", "Infinity"}] :
          LET given == [i \in 1..Len(arg) |->
                           IF answers[i] = "NaN" THEN NaN
                           ELSE IF answers[i] = "Infinity" THEN Infinity
                           ELSE MeasuredWidth(arg[i])]
              call == StructuredTextWidthCall(arg, given, ContextAtEntry)
          IN  ret' = <<[ parts |-> call.parts, width |-> call.width,
                         context |-> call.context, answers |-> given ]>>
    /\ UNCHANGED <<metrics, textBlockVars, arg, ww, ell>>

SpecMeasure == InitMeasure /\ [][CallMeasure]_vars

(***************************************************************************)
(* C12 (under SpecMeasure): a run for which the measurement service gives  *)
(* a non-finite width is stored with the width 0, and the total that       *)
(* _structuredTextWidth returns is finite: the sum of the stored widths.   *)
(***************************************************************************)
C12_NonFiniteIsZero ==
    ret # <<>> =>
        /\ \A i \in 1..Len(arg) :
              (arg[i].width = undefined /\ ~IsFinite(ret[1].answers[i]))
                  => ret[1].parts[i].width = 0
        /\ IsFinite(ret[1].width)
        /\ ret[1].width = SumSeq([i \in 1..Len(arg) |->
                              IF IsFinite(ret[1].parts[i].width)
                              THEN ret[1].parts[i].width ELSE 0])

(***************************************************************************)
(* C18 (under SpecMeasure): _structuredTextWidth returns with the drawing  *)
(* context as it found it: the same stack of saved states and the same     *)
(* font.                                                                   *)
(***************************************************************************)
C18_ContextLeftAsFound ==
    ret # <<>> => ret[1].context = ContextAtEntry

(***************************************************************************)
(* _parseLineEllipsis, the Ellipsis policy of the plain-text path (the     *)
(* branch taken when Array.from exists).  The text is measured in the font *)
(* of the block.                                                           *)
(***************************************************************************)
Dot == "."

PlainWidth(line) == measureText(_inheritAttributes(NoOverrides), line)

\* while ( characters.length && lineWidth > width )
RECURSIVE PlainEllipsisLoop(_, _, _, _)
PlainEllipsisLoop(characters, line, lineWidth, width) ==
    IF Len(characters) > 0 /\ lineWidth > width
    THEN LET popped == Front(characters)
             shorter == popped \o <<Dot, Dot, Dot>>
         IN  PlainEllipsisLoop(popped, shorter, PlainWidth(shorter), width)
    ELSE [ text |-> line, width |-> lineWidth ]

_parseLineEllipsis(line, width) ==
    LET lineWidth == PlainWidth(line)
        marked == IF lineWidth > width THEN Append(line, EllipsisChar) ELSE line
    IN  PlainEllipsisLoop(marked, marked, lineWidth, width)

(***************************************************************************)
(* SpecPlain: one line of text (no newline) laid out in Ellipsis mode at   *)
(* one target width by the plain-text path and, as a single run without    *)
(* overrides, by the structured path.                                      *)
(***************************************************************************)
InitPlain ==
    /\ metrics \in MetricsSet
    /\ structuredText = <<>>
    /\ textWrapping = "Ellipsis"
    /\ currentMeasureWidth = 0
    /\ lines = <<>>
    /\ isDirty = FALSE
    /\ useStructuredText = FALSE
    /\ arg \in [line : SeqsUpTo(WordChars, MaxChars), width : WordWrapWidths]
    /\ ret = <<>>
    /\ ww = NoCall
    /\ ell = NoCall

CallEllipsisBoth ==
    /\ ret = <<>>
    /\ ret' = <<[ plain |-> _parseLineEllipsis(arg.line, arg.width),
                  structured |-> _parseStructuredTextLineEllipsis(<<Plain(arg.line)>>, arg.width) ]>>
    /\ UNCHANGED <<metrics, textBlockVars, arg, ww, ell>>

SpecPlain == InitPlain /\ [][CallEllipsisBoth]_vars

(***************************************************************************)
(* C13 (under SpecPlain): for a line wider than the target width, the      *)
(* plain-text path and the structured path return the same line text: a    *)
(* prefix of the line followed by one ellipsis character, the longest such *)
(* text that fits.                                                         *)
(***************************************************************************)
C13_PlainAsStructured ==
    (ret # <<>> /\ PlainWidth(arg.line) > arg.width) =>
        LET text == ret[1].plain.text
        IN  /\ text = LineText(ret[1].structured)
            /\ text # <<>>
            /\ Last(text) = EllipsisChar
            /\ IsPrefix(Front(text), arg.line)
            /\ \A n \in Len(text)..Len(arg.line) :
                  PlainWidth(Append(SubSeq(arg.line, 1, n), EllipsisChar)) > arg.width

(***************************************************************************)
(* C14 (under SpecFuse): _fuseStructuredTextParts merges adjacent runs if  *)
(* and only if their eleven override fields are equal.  The output has one *)
(* run for every maximal block of adjacent input runs of one style, in     *)
(* the order of the input, with the style of the block and the texts of    *)
(* the block concatenated; no two adjacent output runs have the same       *)
(* style; an input of at most one run is returned unchanged.               *)
(***************************************************************************)
BlockStarts(st) == {i \in 1..Len(st) : i = 1 \/ ~SameStyle(st[i - 1], st[i])}

BlockEnd(st, i) ==
    CHOOSE j \in i..Len(st) :
        /\ \A k \in (i + 1)..j : k \notin BlockStarts(st)
        /\ j = Len(st) \/ (j + 1) \in BlockStarts(st)

C14_FuseIffSameStyle ==
    ret # <<>> =>
        LET out == ret[1]
            starts == BlockStarts(arg)
        IN  /\ Len(arg) <= 1 => out = arg
            /\ NoAdjacentSameStyle(out)
            /\ Len(out) = Cardinality(starts)
            /\ \A i \in starts :
                  LET j == Cardinality({s \in starts : s <= i})
                  IN  /\ SameStyle(out[j], arg[i])
                      /\ out[j].text = Concat(Map(TextOf, SubSeq(arg, i, BlockEnd(arg, i))))

\* Of three runs the first two were merged and the third, of another
\* style, was kept apart.
C14_Witness ==
    /\ ret # <<>>
    /\ Len(arg) = 3
    /\ SameStyle(arg[1], arg[2])
    /\ ~SameStyle(arg[2], arg[3])
    /\ arg[1].text # <<>> /\ arg[2].text # <<>>
    /\ Len(ret[1]) = 2

(***************************************************************************)
(* C15 (under SpecEllipsis): a group that fits the target width is         *)
(* returned by the Ellipsis policy as a line with the text of the group    *)
(* unchanged and its runs fused: no two adjacent runs of the line have the *)
(* same style.                                                             *)
(***************************************************************************)
C15_FittingGroupFused ==
    (ell.pc = "done" /\ WidthAtEntry(arg) <= ell.width) =>
        /\ Concat(Map(TextOf, ell.line)) = Concat(Map(TextOf, arg))
        /\ NoAdjacentSameStyle(ell.line)

(***************************************************************************)
(* C16 (under SpecEllipsis): the call returns for every group and every    *)
(* target width, 0 and negative ones included.  Every step brings it       *)
(* closer to its return (EllStepsLeft counts the loop tests it may still   *)
(* make: at most one per character and two per run, and the last one);     *)
(* every iteration of the inner loop removes one character of the last     *)
(* run; every iteration of the outer loop removes the last run or leaves   *)
(* a line that ends the loop.                                              *)
(***************************************************************************)
RunSteps(part) == Len(part.text) + 2

EllStepsLeft(f) ==
    IF f.pc = "done" THEN 0
    ELSE IF f.pc = "outer"
         THEN IF Len(f.line) > 0 /\ f.lineWidth > f.width
              THEN 1 + SumSeq(Map(RunSteps, f.line))
              ELSE 1
         ELSE 2 + Len(f.characters) + SumSeq(Map(RunSteps, Front(f.line)))

C16_EllipsisProgress ==
    [][ell.pc \in {"outer", "inner"} =>
          /\ EllStepsLeft(ell') < EllStepsLeft(ell)
          /\ (ell.pc = "inner" /\ ell'.pc = "inner") =>
                /\ Len(ell'.characters) = Len(ell.characters) - 1
                /\ Len(ell'.line) = Len(ell.line)
          /\ (ell.pc = "inner" /\ ell'.pc = "outer") =>
                \/ ell'.line = Front(ell.line)
                \/ ell'.line = ell.line /\ ell'.lineWidth <= ell'.width
      ]_vars

\* At a negative target width nothing fits: a call on two runs with text
\* popped every character and dropped both runs.
C16_Witness ==
    /\ ell.pc = "done"
    /\ ell.width < 0
    /\ Len(arg) = 2
    /\ Len(arg[1].text) >= 1 /\ Len(arg[2].text) >= 1
    /\ ell.line = <<>>
    /\ Len(ell.dropped) = 2

(***************************************************************************)
(* C17 (under Spec): a layout pass leaves the texts of the caller's runs   *)
(* as they were supplied (it may only store widths on them), so a pass at  *)
(* a width in which the supplied text fits returns that text, without a    *)
(* marker left by an earlier, narrower Ellipsis pass.                      *)
(***************************************************************************)
C17_PassKeepsTexts ==
    [][useStructuredText =>
          Map(TextOf, structuredText') = Map(TextOf, structuredText)]_vars

(***************************************************************************)
(* Painting.  The paint surface is the record of its shadow settings.      *)
(* ShadowOf is _inheritAttributes for the shadow fields: those of the      *)
(* part, else those of the block, which has no shadow of its own.          *)
(***************************************************************************)
ShadowOf(part) ==
    [ shadowBlur    |-> IF part.shadowBlur # undefined THEN part.shadowBlur ELSE 0,
      shadowOffsetX |-> IF part.shadowOffsetX # undefined THEN part.shadowOffsetX ELSE 0,
      shadowOffsetY |-> IF part.shadowOffsetY # undefined THEN part.shadowOffsetY ELSE 0 ]

\* _setContextAttributes, the shadow settings.
_setContextAttributes(context, attr) ==
    IF attr.shadowBlur # 0 \/ attr.shadowOffsetX # 0 \/ attr.shadowOffsetY # 0
    THEN [context EXCEPT !.shadowBlur = attr.shadowBlur,
                         !.shadowOffsetX = attr.shadowOffsetX,
                         !.shadowOffsetY = attr.shadowOffsetY]
    ELSE [context EXCEPT !.shadowBlur = 0]

\* The loop of _drawStructuredText: a part without width is skipped; for
\* the others the surface is set up and the text is painted.  painted
\* records every fillText with the part and the surface it was painted on.
RECURSIVE DrawLoop(_, _, _, _)
DrawLoop(parts, index, context, painted) ==
    IF index > Len(parts) THEN [ painted |-> painted, context |-> context ]
    ELSE IF parts[index].width = undefined \/ parts[index].width = 0
         THEN DrawLoop(parts, index + 1, context, painted)
         ELSE LET set == _setContextAttributes(context, ShadowOf(parts[index]))
              IN  DrawLoop(parts, index + 1, set,
                           Append(painted, [ part |-> parts[index], context |-> set ]))

_drawStructuredText(parts, context) == DrawLoop(parts, 1, context, <<>>)

(***************************************************************************)
(* SpecDraw: the runs of a line, measured, are painted by                  *)
(* _drawStructuredText on a surface that has no shadow set.                *)
(***************************************************************************)
SurfaceAtEntry == [shadowBlur |-> 0, shadowOffsetX |-> 0, shadowOffsetY |-> 0]

DrawPool ==
    {[Plain(t) EXCEPT !.width = Len(t), !.shadowBlur = b, !.shadowOffsetX = x,
                      !.shadowOffsetY = y] :
        t \in {<<>>, <<"a">>}, b \in {undefined, 0, 1}, x \in {undefined, 1},
        y \in {undefined, 1}}

InitDraw ==
    /\ TextBlockIdle
    /\ ww = NoCall
    /\ ell = NoCall
    /\ arg \in SeqsUpTo(DrawPool, MaxParts)
    /\ ret = <<>>

CallDraw ==
    /\ ret = <<>>
    /\ ret' = <<_drawStructuredText(arg, SurfaceAtEntry)>>
    /\ UNCHANGED <<metrics, textBlockVars, arg, ww, ell>>

SpecDraw == InitDraw /\ [][CallDraw]_vars

(***************************************************************************)
(* C19 (under SpecDraw): a run whose resolved shadow blur and shadow       *)
(* offsets are all zero is painted on a surface whose shadowBlur,          *)
(* shadowOffsetX and shadowOffsetY are all zero, whatever the runs painted *)
(* before it had.                                                          *)
(***************************************************************************)
C19_NoShadowCarriedOver ==
    ret # <<>> =>
        \A k \in 1..Len(ret[1].painted) :
            ShadowOf(ret[1].painted[k].part) = SurfaceAtEntry
                => ret[1].painted[k].context = SurfaceAtEntry

====
